---- MODULE Spec2Model ----
(***************************************************************************)
(* Model of the nRF DFU-over-BLE client (nrfdfu-ble): the protocol engine  *)
(* of src/src/protocol.rs (dfu_run, DfuTarget) driving a device through    *)
(* the transport interface of src/src/transport.rs.                        *)
(*                                                                         *)
(* The engine is one cooperative task.  Every .await of dfu_run is a       *)
(* suspension point and is a value of pc; the code between two suspension  *)
(* points is one action.  The device and the BLE link are the environment: *)
(* each attempt of a control request ends with silence (timeout), a wire   *)
(* error, or a notification carrying any byte sequence of a small set that *)
(* reaches every branch of the reply parsers.                              *)
(***************************************************************************)
EXTENDS Integers, Sequences, FiniteSets, TLC

(***************************************************************************)
(* Bounds of the model.                                                    *)
(***************************************************************************)
\* longest firmware image (fw_pkt) tried
MaxFwLen == 4
\* longest init packet (init_pkt) tried
MaxInitLen == 2
\* largest max_size the device reports in its ObjectSelect reply
MaxObjSize == 2
\* how many times the environment lets a Data-phase verify_crc fail in a run
MaxRetries == 2
\* how many zero-length Data objects the device confirms in a run
MaxIdle == 1
\* longest reply handed to a function called on its own
MaxReplyLen == 4
\* most full frames in a buffer handed to transport.write
MaxFrames == 2
\* longest firmware, and largest max_size, tried against the truthful device
LateFwLen == 2
\* how many notifications the link delays at a time
MaxAir == 3

(***************************************************************************)
(* Program constants.                                                      *)
(***************************************************************************)
\* Object (protocol.rs:16-19)
ObjCommand == 1
ObjData == 2
\* OpCode (protocol.rs:24-38)
OpObjectCreate == 1
OpReceiptNotifSet == 2
OpCrcGet == 3
OpObjectExecute == 4
OpObjectSelect == 6
OpResponse == 96
\* ResponseCode (protocol.rs:43-64)
RcSuccess == 1
RcExtError == 11
ResponseCodes == {0, 1, 2, 3, 4, 5, 7, 8, 10, 11}
\* ExtError (protocol.rs:69-98)
ExtErrors == 0..13
\* a fourth attempt
MaxTriesOneMore == 3 + 1

\* for _retry in 0..3 (protocol.rs:137)
MaxTries == 3

(***************************************************************************)
(* A u32 is kept as its two 16-bit halves << high, low >>: the model       *)
(* checker's integers are 32-bit signed and cannot hold a CRC-32.          *)
(***************************************************************************)
Half == 256 * 256

\* `n as u32` of a usize n (protocol.rs:178)
as_u32(n) == << (n \div Half) % Half, n % Half >>

\* `v as usize` of a u32 v (protocol.rs:161, 172)
as_usize(v) == v[1] * Half + v[2]

(***************************************************************************)
(* u32::to_le_bytes / u32::from_le_bytes                                   *)
(***************************************************************************)
to_le_bytes(v) == << v[2] % 256, v[2] \div 256, v[1] % 256, v[1] \div 256 >>

from_le_bytes(b) == << b[3] + 256 * b[4], b[1] + 256 * b[2] >>

\* the Rust slice bytes[lo..hi] (0-based, hi exclusive) of a 1-based sequence
Slice(bytes, lo, hi) == SubSeq(bytes, lo + 1, hi)

(***************************************************************************)
(* crc32 (protocol.rs:100-104): crc32fast's Hasher is the reflected        *)
(* IEEE 802.3 CRC-32; new_with_initial(init) resumes from a finalized      *)
(* value, so the register starts at NOT init and finalize returns NOT of   *)
(* the register.                                                           *)
(***************************************************************************)
RECURSIVE Xor(_, _)
Xor(a, b) ==
    IF a = 0 THEN b
    ELSE IF b = 0 THEN a
    ELSE CHOOSE r \in { (((p[1] % 2) + (p[2] % 2)) % 2) + 2 * Xor(p[1] \div 2, p[2] \div 2) :
                          p \in { << a, b >> } } : TRUE

Xor32(x, y) == << Xor(x[1], y[1]), Xor(x[2], y[2]) >>

Not32(x) == << (Half - 1) - x[1], (Half - 1) - x[2] >>

Shr1(x) == << x[1] \div 2, (x[2] \div 2) + (Half \div 2) * (x[1] % 2) >>

\* the reflected polynomial 0xEDB88320
CrcPoly == << 60856, 33568 >>

\* one bit of the register shifted out, k times
RECURSIVE CrcShift(_, _)
CrcShift(reg, k) ==
    IF k = 0 THEN reg
    ELSE CrcShift(IF reg[2] % 2 = 1 THEN Xor32(Shr1(reg), CrcPoly) ELSE Shr1(reg), k - 1)

\* the byte-wise table of the algorithm
CrcTable == [b \in 0..255 |-> CrcShift(<< 0, b >>, 8)]

Shr8(x) == << x[1] \div 256, (x[2] \div 256) + 256 * (x[1] % 256) >>

CrcByte(reg, byte) == Xor32(CrcTable[Xor(reg[2] % 256, byte)], Shr8(reg))

RECURSIVE CrcUpdate(_, _, _)
CrcUpdate(reg, buf, i) ==
    IF i > Len(buf) THEN reg
    ELSE CHOOSE r \in { CrcUpdate(next, buf, i + 1) : next \in { CrcByte(reg, buf[i]) } } : TRUE

crc32(buf, init) ==
    CHOOSE r \in { Not32(reg) : reg \in { CrcUpdate(Not32(init), buf, 1) } } : TRUE

(***************************************************************************)
(* Results of the fallible functions: Ok, Err(kind, code) or a panic       *)
(* (an out-of-range index or slice aborts the process).                    *)
(***************************************************************************)
Ok == [st |-> "ok", kind |-> "", code |-> 0, val |-> << >>]
OkVal(v) == [st |-> "ok", kind |-> "", code |-> 0, val |-> v]
Err(kind, code) == [st |-> "err", kind |-> kind, code |-> code, val |-> << >>]
Panic == [st |-> "panic", kind |-> "IndexOutOfRange", code |-> 0, val |-> << >>]

(***************************************************************************)
(* DfuTarget::verify_response (protocol.rs:113-129).  bytes[i] of the      *)
(* source is bytes[i+1] here.                                              *)
(***************************************************************************)
verify_response(req_opcode, bytes) ==
    IF Len(bytes) < 3 THEN Err("Framing", 1)
    ELSE IF bytes[1] # OpResponse THEN Err("Framing", 2)
    ELSE IF bytes[2] # req_opcode THEN Err("Framing", 3)
    ELSE IF bytes[3] \notin ResponseCodes THEN Err("UnknownResponseCode", bytes[3])
    ELSE IF bytes[3] = RcExtError THEN
        IF Len(bytes) < 4 THEN Panic
        ELSE IF bytes[4] \notin ExtErrors THEN Err("UnknownExtError", bytes[4])
        ELSE Err("ExtError", bytes[4])
    ELSE IF bytes[3] # RcSuccess THEN Err("Device", bytes[3])
    ELSE Ok

(***************************************************************************)
(* Request payloads, as the request functions build them.                  *)
(***************************************************************************)
\* set_prn (protocol.rs:147-149)
SetPrnPayload(value) == << OpReceiptNotifSet >> \o to_le_bytes(as_u32(value))
\* get_crc (protocol.rs:156-157)
CrcGetPayload == << OpCrcGet >>
\* select_object (protocol.rs:165-167)
SelectPayload(obj_type) == << OpObjectSelect, obj_type >>
\* create_object (protocol.rs:176-178)
CreatePayload(obj_type, len) == << OpObjectCreate, obj_type >> \o to_le_bytes(as_u32(len))
\* execute (protocol.rs:185-186)
ExecutePayload == << OpObjectExecute >>

(***************************************************************************)
(* The request functions after request_ctrl has returned res: the `?` on   *)
(* request_ctrl, verify_response, and the parsing of the payload.  A slice *)
(* response[a..b] with b > len panics.                                     *)
(***************************************************************************)
\* set_prn, create_object, execute (protocol.rs:150-152, 179-181, 186-188)
simple_request(opcode, res) ==
    IF res.st # "ok" THEN res ELSE verify_response(opcode, res.val)

\* get_crc (protocol.rs:155-162)
get_crc(res) ==
    IF res.st # "ok" THEN res
    ELSE LET response == res.val
             v == verify_response(OpCrcGet, response)
         IN  IF v.st # "ok" THEN v
             ELSE IF Len(response) < 7 THEN Panic
             ELSE IF Len(response) < 11 THEN Panic
             ELSE OkVal(<< as_usize(from_le_bytes(Slice(response, 3, 7))),
                           from_le_bytes(Slice(response, 7, 11)) >>)

\* select_object (protocol.rs:164-173)
select_object(res) ==
    IF res.st # "ok" THEN res
    ELSE LET response == res.val
             v == verify_response(OpObjectSelect, response)
         IN  IF v.st # "ok" THEN v
             ELSE IF Len(response) < 7 THEN Panic
             ELSE IF Len(response) < 11 THEN Panic
             ELSE IF Len(response) < 15 THEN Panic
             ELSE OkVal(<< as_usize(from_le_bytes(Slice(response, 3, 7))),
                           as_usize(from_le_bytes(Slice(response, 7, 11))),
                           from_le_bytes(Slice(response, 11, 15)) >>)

\* verify_crc without its comparison of the CRC
verify_crc_offset_only(expected_offset, expected_crc, res) ==
    LET g == get_crc(res)
    IN  IF g.st # "ok" THEN g
        ELSE IF expected_offset # g.val[1] THEN Err("OffsetMismatch", 0)
        ELSE Ok

\* verify_crc (protocol.rs:191-196)
verify_crc(expected_offset, expected_crc, res) ==
    LET g == get_crc(res)
    IN  IF g.st # "ok" THEN g
        ELSE IF expected_offset # g.val[1] THEN Err("OffsetMismatch", 0)
        ELSE IF expected_crc # g.val[2] THEN Err("CrcMismatch", 0)
        ELSE Ok

(***************************************************************************)
(* State.                                                                  *)
(***************************************************************************)
VARIABLES
    pc,            \* the suspension point dfu_run is at
    init_pkt,      \* dfu_run's init_pkt
    fw_pkt,        \* dfu_run's fw_pkt
    max_size,      \* max_size of the ObjectSelect reply (protocol.rs:223)
    offset,        \* protocol.rs:228
    checksum,      \* protocol.rs:227
    chunk,         \* protocol.rs:231
    new_offset,    \* protocol.rs:235
    new_checksum,  \* protocol.rs:234
    retry,         \* request_ctrl's loop variable _retry (protocol.rs:137)
    waiting,       \* an attempt of the current control request is in flight
    result,        \* what dfu_run returned (or the panic that ended it)
    sends,         \* history: times the current control request was written
    log,           \* history: the operations issued on the transport, in order
    retries,       \* history: Data-phase iterations whose verify_crc failed
    idle,          \* history: Data objects of length 0 that were verified
    reported,      \* history: the CRC of the last reply that carried one
    verified,      \* history: verify_crc succeeded for the object last created
    outcome,       \* history: how the last attempt of a control request ended
    reply,         \* history: what request_ctrl returned last
    call,          \* the function called on its own, with its arguments
    frames,        \* the frames transport.write has handed to the peripheral
    ret,           \* what the function called on its own returned
    dev,           \* the device: its object, offset and CRC
    air,           \* notifications the device has sent that have not arrived
    got            \* history: whether the notification returned last was a late one

vars == << pc, init_pkt, fw_pkt, max_size, offset, checksum, chunk, new_offset,
           new_checksum, retry, waiting, result, sends, log, retries, idle,
           reported, verified, outcome, reply, call, frames, ret, dev, air, got >>

\* the state of a function called on its own, and the state of the link
unit == << call, frames, ret >>
link == << dev, air, got >>

inputs == << init_pkt, fw_pkt >>
locals == << max_size, offset, checksum, chunk, new_offset, new_checksum >>

Zero32 == << 0, 0 >>
Running == [st |-> "running", kind |-> "", code |-> 0, val |-> << >>]

Min(a, b) == IF a < b THEN a ELSE b

\* the bytes of the images tried: 0x01, 0x02, ... and 0xAA, 0xBB, ...
FwByte(i) == i % 256
InitByte(i) == (170 + 17 * (i - 1)) % 256
Firmware(n) == [i \in 1..n |-> FwByte(i)]
InitPacket(n) == [i \in 1..n |-> InitByte(i)]

\* entries of log
SubEntry == [k |-> "subscribe", bytes |-> << >>, at |-> 0]
CtrlEntry(bytes) == [k |-> "ctrl", bytes |-> bytes, at |-> 0]
DataEntry(bytes, at) == [k |-> "data", bytes |-> bytes, at |-> at]

\* no function is called on its own; the device is not looked into
NoCall == [fn |-> "none", op |-> 0, bytes |-> << >>]
NoDevice == [obj |-> 0, offset |-> 0, crc |-> Zero32, base |-> << 0, Zero32 >>, max |-> 0]

CtrlPcs == {"set_prn", "cmd_create", "cmd_verify", "cmd_execute", "select",
            "data_create", "data_verify", "data_execute"}

Init ==
    /\ pc = "connect"
    /\ init_pkt \in {InitPacket(n) : n \in 0..MaxInitLen}
    /\ fw_pkt \in {Firmware(n) : n \in 0..MaxFwLen}
    /\ max_size = 0
    /\ offset = 0
    /\ checksum = Zero32
    /\ chunk = << >>
    /\ new_offset = 0
    /\ new_checksum = Zero32
    /\ retry = 0
    /\ waiting = FALSE
    /\ result = Running
    /\ sends = 0
    /\ log = << >>
    /\ retries = 0
    /\ idle = 0
    /\ reported = Zero32
    /\ verified = FALSE
    /\ outcome = "none"
    /\ reply = Running
    /\ call = NoCall
    /\ frames = << >>
    /\ ret = Running
    /\ dev = NoDevice
    /\ air = << >>
    /\ got = "none"

(***************************************************************************)
(* The environment: what one attempt of a control request can end with.    *)
(***************************************************************************)
OtherOp(op) == IF op = OpCrcGet THEN OpObjectExecute ELSE OpCrcGet

\* replies without payload: success, the framing errors, the result codes
HeaderReplies(op) ==
    { << OpResponse, op, RcSuccess >>,
      << OpResponse, op >>,
      << 32, op, RcSuccess >>,
      << OpResponse, OtherOp(op), RcSuccess >>,
      << OpResponse, op, 6 >>,
      << OpResponse, op, 10 >>,
      << OpResponse, op, RcExtError, 5 >>,
      << OpResponse, op, RcExtError, 14 >>,
      << OpResponse, op, RcExtError >> }

OtherCrc(c) == IF c = << 57005, 48879 >> THEN Zero32 ELSE << 57005, 48879 >>

\* replies to CrcGet when the engine expects (o, c)
CrcReplies(o, c) ==
    HeaderReplies(OpCrcGet) \cup
    { << OpResponse, OpCrcGet, RcSuccess >> \o to_le_bytes(as_u32(p[1])) \o to_le_bytes(p[2]) :
        p \in { << o, c >>, << o, OtherCrc(c) >>, << o + 1, c >> } } \cup
    { << OpResponse, OpCrcGet, RcSuccess >> \o to_le_bytes(as_u32(o)),
      << OpResponse, OpCrcGet, RcSuccess >> \o to_le_bytes(as_u32(o)) \o to_le_bytes(c) \o << 0 >> }

\* replies to ObjectSelect
SelectReplies ==
    HeaderReplies(OpObjectSelect) \cup
    { << OpResponse, OpObjectSelect, RcSuccess >> \o to_le_bytes(as_u32(m))
        \o to_le_bytes(as_u32(p[1])) \o to_le_bytes(p[2]) :
        m \in (0..MaxObjSize) \cup {4096}, p \in { << 0, Zero32 >>, << 32, Zero32 >>, << 0, << 57005, 48879 >> >> } } \cup
    { << OpResponse, OpObjectSelect, RcSuccess >> \o to_le_bytes(as_u32(1)) \o to_le_bytes(Zero32) }

(***************************************************************************)
(* DfuTarget::request_ctrl (protocol.rs:136-144)                           *)
(***************************************************************************)
\* the payload of the control request dfu_run is at
Payload ==
    CASE pc = "set_prn" -> SetPrnPayload(0)
      [] pc = "cmd_create" -> CreatePayload(ObjCommand, Len(init_pkt))
      [] pc = "data_create" -> CreatePayload(ObjData, Len(chunk))
      [] pc \in {"cmd_verify", "data_verify"} -> CrcGetPayload
      [] pc \in {"cmd_execute", "data_execute"} -> ExecutePayload
      [] pc = "select" -> SelectPayload(ObjData)
      [] OTHER -> << >>

\* a request written while the previous attempt is still awaited
RequestCtrlSendPipelined ==
    /\ pc \in CtrlPcs
    /\ waiting' = TRUE
    /\ sends' = IF retry = 0 THEN 1 ELSE sends + 1
    /\ log' = IF retry = 0 THEN Append(log, CtrlEntry(Payload)) ELSE log
    /\ UNCHANGED << pc, inputs, locals, retry, result, retries, idle, reported,
                    verified, outcome, reply >>

\* transport.request writes the request (protocol.rs:138, transport_btleplug.rs:139)
RequestCtrlSend ==
    /\ pc \in CtrlPcs
    /\ ~waiting
    /\ waiting' = TRUE
    /\ sends' = IF retry = 0 THEN 1 ELSE sends + 1
    /\ log' = IF retry = 0 THEN Append(log, CtrlEntry(Payload)) ELSE log
    /\ UNCHANGED << pc, inputs, locals, retry, result, retries, idle, reported,
                    verified, outcome, reply >>

\* how an attempt can end: the 500 ms window elapses, transport.request fails,
\* or a notification of the control point arrives
AttemptOutcomes == {"timeout", "wire", "reply"}

\* a loop that also goes on after a transport error
RetriedOnAnyError(o) == o \in {"timeout", "wire"}

\* `if let Ok(res) = timeout(..)` fails: the attempt is abandoned and the loop
\* goes on (protocol.rs:139-142)
Retried(o) == o = "timeout"

RequestCtrlRetry ==
    /\ pc \in CtrlPcs
    /\ waiting
    /\ retry + 1 < MaxTries
    /\ \E o \in AttemptOutcomes :
        /\ Retried(o)
        /\ outcome' = o
    /\ retry' = retry + 1
    /\ waiting' = FALSE
    /\ UNCHANGED << pc, inputs, locals, result, sends, log, retries, idle, reported,
                    verified, reply >>

\* what request_ctrl can return from the attempt in flight: the attempt's own
\* result (protocol.rs:140), or NoResponse when the last window has elapsed
\* (protocol.rs:143); o is how the attempt ended
Returns(replies) ==
    { << o, r >> \in AttemptOutcomes \X ({ Err("Wire", 0), Err("NoResponse", 0) }
                                          \cup { OkVal(b) : b \in replies }) :
        \/ o = "wire" /\ ~Retried(o) /\ r = Err("Wire", 0)
        \/ o = "reply" /\ ~Retried(o) /\ r.st = "ok"
        \/ Retried(o) /\ retry + 1 >= MaxTries /\ r = Err("NoResponse", 0) }

(***************************************************************************)
(* dfu_run (protocol.rs:201-250)                                           *)
(***************************************************************************)
\* the request state of request_ctrl once it has returned x, a pair of how the
\* last attempt ended and of the value returned; each XxxOn(x) below is the step
\* of dfu_run on that return
Returned(x) ==
    /\ retry' = 0
    /\ waiting' = FALSE
    /\ outcome' = x[1]
    /\ reply' = x[2]

\* `?`: dfu_run returns the error (a panic aborts it)
Fail(r) ==
    /\ pc' = IF r.st = "panic" THEN "panicked" ELSE "failed"
    /\ result' = r

\* the Command object executed without its verify_crc
AfterSkipVerify(step) ==
    CASE step = "connect" -> "subscribe"
      [] step = "subscribe" -> "set_prn"
      [] step = "set_prn" -> "cmd_create"
      [] step = "cmd_create" -> "cmd_write"
      [] step = "cmd_write" -> "cmd_execute"
      [] step = "cmd_verify" -> "cmd_execute"
      [] step = "cmd_execute" -> "select"

\* ObjectSelect(Data) sent before the Command object is created
AfterSelectEarly(step) ==
    CASE step = "connect" -> "subscribe"
      [] step = "subscribe" -> "set_prn"
      [] step = "set_prn" -> "select"
      [] step = "cmd_create" -> "cmd_write"
      [] step = "cmd_write" -> "cmd_verify"
      [] step = "cmd_verify" -> "cmd_execute"
      [] step = "cmd_execute" -> "select"

\* the statement that follows each step of the Command phase (protocol.rs:204-223)
After(step) ==
    CASE step = "connect" -> "subscribe"
      [] step = "subscribe" -> "set_prn"
      [] step = "set_prn" -> "cmd_create"
      [] step = "cmd_create" -> "cmd_write"
      [] step = "cmd_write" -> "cmd_verify"
      [] step = "cmd_verify" -> "cmd_execute"
      [] step = "cmd_execute" -> "select"

\* `?` on a step of the Command phase
Try(r, step) ==
    IF r.st = "ok" THEN pc' = After(step) /\ result' = result ELSE Fail(r)

\* manager.connect (protocol.rs:202-203)
Connect ==
    /\ pc = "connect"
    /\ \E ok \in BOOLEAN : Try(IF ok THEN Ok ELSE Err("Connect", 0), "connect")
    /\ UNCHANGED << inputs, locals, retry, waiting, sends, log, retries, idle,
                    reported, verified, outcome, reply >>

\* transport.subscribe(CTRL_PT) (protocol.rs:204)
Subscribe ==
    /\ pc = "subscribe"
    /\ log' = Append(log, SubEntry)
    /\ \E ok \in BOOLEAN : Try(IF ok THEN Ok ELSE Err("Subscribe", 0), "subscribe")
    /\ UNCHANGED << inputs, locals, retry, waiting, sends, retries, idle, reported,
                    verified, outcome, reply >>

\* target.set_prn(0) (protocol.rs:216)
SetPrnOn(x) ==
    /\ Try(simple_request(OpReceiptNotifSet, x[2]), "set_prn")
    /\ Returned(x)
    /\ UNCHANGED << inputs, locals, sends, log, retries, idle, reported, verified >>

SetPrn ==
    /\ pc = "set_prn" /\ waiting
    /\ \E x \in Returns(HeaderReplies(OpReceiptNotifSet)) : SetPrnOn(x)

\* target.create_object(Object::Command, init_pkt.len()) (protocol.rs:218)
CreateCommandOn(x) ==
    /\ Try(simple_request(OpObjectCreate, x[2]), "cmd_create")
    /\ Returned(x)
    /\ verified' = FALSE
    /\ UNCHANGED << inputs, locals, sends, log, retries, idle, reported >>

CreateCommand ==
    /\ pc = "cmd_create" /\ waiting
    /\ \E x \in Returns(HeaderReplies(OpObjectCreate)) : CreateCommandOn(x)

\* write_data: one transport.write under a 500 ms timeout, never repeated
\* (protocol.rs:131-134)
WriteOutcomes == { Ok, Err("WriteTimeout", 0), Err("Wire", 0) }

\* target.write_data(init_pkt) (protocol.rs:219)
WriteInit ==
    /\ pc = "cmd_write"
    /\ log' = Append(log, DataEntry(init_pkt, 0))
    /\ \E r \in WriteOutcomes : Try(r, "cmd_write")
    /\ UNCHANGED << inputs, locals, retry, waiting, sends, retries, idle, reported,
                    verified, outcome, reply >>

\* the CRC a reply to CrcGet carried, if it carried one
Reported(res) == IF get_crc(res).st = "ok" THEN get_crc(res).val[2] ELSE reported

\* target.verify_crc(init_pkt.len(), crc32(init_pkt, 0)) (protocol.rs:220)
VerifyCommandOn(x) ==
    /\ LET r == verify_crc(Len(init_pkt), crc32(init_pkt, Zero32), x[2])
       IN  /\ Try(r, "cmd_verify")
           /\ Returned(x)
           /\ reported' = Reported(x[2])
           /\ verified' = (r.st = "ok")
    /\ UNCHANGED << inputs, locals, sends, log, retries, idle >>

VerifyCommand ==
    /\ pc = "cmd_verify" /\ waiting
    /\ \E x \in Returns(CrcReplies(Len(init_pkt), crc32(init_pkt, Zero32))) : VerifyCommandOn(x)

\* target.execute() (protocol.rs:221)
ExecuteCommandOn(x) ==
    /\ Try(simple_request(OpObjectExecute, x[2]), "cmd_execute")
    /\ Returned(x)
    /\ UNCHANGED << inputs, locals, sends, log, retries, idle, reported, verified >>

ExecuteCommand ==
    /\ pc = "cmd_execute" /\ waiting
    /\ \E x \in Returns(HeaderReplies(OpObjectExecute)) : ExecuteCommandOn(x)

\* chunks of one byte whatever max_size is
ChunkEndOneByte(off, ms) == Min(Len(fw_pkt), off + 1)

\* `end` of the chunk that starts at off (protocol.rs:230)
ChunkEnd(off, ms) == Min(Len(fw_pkt), off + ms)

\* the loop head and, past the loop, the return (protocol.rs:229-231, 247-249)
LoopHead(off, ms) ==
    IF off < Len(fw_pkt)
    THEN /\ pc' = "data_create"
         /\ chunk' = SubSeq(fw_pkt, off + 1, ChunkEnd(off, ms))
         /\ result' = result
    ELSE /\ pc' = "done"
         /\ chunk' = chunk
         /\ result' = Ok

\* a check of the offset alone
ResumeRejectedOffsetOnly(o, c) == o # 0

\* the comparison of the checksum turned around
ResumeRejectedTypo(o, c) == o # 0 \/ c = Zero32

\* `if offset != 0 || checksum != 0` (protocol.rs:224)
ResumeRejected(o, c) == o # 0 \/ c # Zero32

\* target.select_object(Object::Data) and the entry into the loop
\* (protocol.rs:223-231)
SelectDataOn(x) ==
    /\ LET r == select_object(x[2])
       IN  /\ Returned(x)
           /\ IF r.st # "ok"
              THEN Fail(r) /\ UNCHANGED << max_size, chunk, reported >>
              ELSE /\ reported' = r.val[3]
                   /\ IF ResumeRejected(r.val[2], r.val[3])
                      THEN Fail(Err("ResumeUnsupported", 0)) /\ UNCHANGED << max_size, chunk >>
                      ELSE max_size' = r.val[1] /\ LoopHead(0, r.val[1])
    /\ offset' = 0
    /\ checksum' = Zero32
    /\ UNCHANGED << inputs, new_offset, new_checksum, sends, log, retries, idle, verified >>

SelectData ==
    /\ pc = "select" /\ waiting
    /\ \E x \in Returns(SelectReplies) : SelectDataOn(x)

\* target.create_object(Object::Data, chunk.len()) (protocol.rs:232)
CreateDataOn(x) ==
    /\ LET r == simple_request(OpObjectCreate, x[2])
       IN  /\ Returned(x)
           /\ IF r.st = "ok" THEN pc' = "data_write" /\ result' = result ELSE Fail(r)
    /\ verified' = FALSE
    /\ UNCHANGED << inputs, locals, sends, log, retries, idle, reported >>

CreateData ==
    /\ pc = "data_create" /\ waiting
    /\ \E x \in Returns(HeaderReplies(OpObjectCreate)) : CreateDataOn(x)

\* target.write_data(chunk), then new_checksum and new_offset (protocol.rs:233-235)
WriteData ==
    /\ pc = "data_write"
    /\ log' = Append(log, DataEntry(chunk, offset))
    /\ \E r \in WriteOutcomes :
        IF r.st = "ok"
        THEN /\ pc' = "data_verify"
             /\ new_checksum' = crc32(chunk, checksum)
             /\ new_offset' = offset + Len(chunk)
             /\ result' = result
        ELSE Fail(r) /\ UNCHANGED << new_checksum, new_offset >>
    /\ UNCHANGED << inputs, max_size, offset, checksum, chunk, retry, waiting, sends,
                    retries, idle, reported, verified, outcome, reply >>

\* a loop body that gives up on a failed verify_crc
DataVerifyNextGiveUp(r) ==
    CASE r.st = "ok" -> "data_execute"
      [] r.st = "err" -> "failed"
      [] OTHER -> "panicked"

\* where the loop body goes on a result r of verify_crc (protocol.rs:236-245)
DataVerifyNext(r) ==
    CASE r.st = "ok" -> "data_execute"
      [] r.st = "err" -> "backoff"
      [] OTHER -> "panicked"

\* the commit moved before the check of verify_crc's result
NextOffsetEager(r) == IF r.st = "panic" THEN offset ELSE new_offset

\* an offset advanced by max_size instead of the length of the chunk
NextOffsetByMaxSize(r) == IF r.st = "ok" THEN offset + max_size ELSE offset

\* a checksum that starts over with every chunk
NextChecksumUnchained(r) == IF r.st = "ok" THEN crc32(chunk, Zero32) ELSE checksum

\* offset and checksum after verify_crc returned r (protocol.rs:236-243)
NextOffset(r) == IF r.st = "ok" THEN new_offset ELSE offset
NextChecksum(r) == IF r.st = "ok" THEN new_checksum ELSE checksum

\* target.verify_crc(new_offset, new_checksum) and the commit (protocol.rs:236-244)
VerifyDataOn(x) ==
    /\ LET r == verify_crc(new_offset, new_checksum, x[2])
       IN  \* the environment's bounds on failed and on empty iterations
           /\ r.st = "err" => retries < MaxRetries
           /\ (r.st = "ok" /\ chunk = << >>) => idle < MaxIdle
           /\ Returned(x)
           /\ pc' = DataVerifyNext(r)
           /\ result' = IF DataVerifyNext(r) = "panicked" THEN r
                        ELSE IF DataVerifyNext(r) = "failed" THEN r ELSE result
           /\ offset' = NextOffset(r)
           /\ checksum' = NextChecksum(r)
           /\ reported' = Reported(x[2])
           /\ verified' = (r.st = "ok")
           /\ retries' = IF r.st = "err" THEN retries + 1 ELSE retries
           /\ idle' = IF r.st = "ok" /\ chunk = << >> THEN idle + 1 ELSE idle
    /\ UNCHANGED << inputs, max_size, chunk, new_offset, new_checksum, sends, log >>

VerifyData ==
    /\ pc = "data_verify" /\ waiting
    /\ \E x \in Returns(CrcReplies(new_offset, new_checksum)) : VerifyDataOn(x)

\* tokio::time::sleep(500 ms); continue (protocol.rs:237-240, 229-231)
Backoff ==
    /\ pc = "backoff"
    /\ LoopHead(offset, max_size)
    /\ UNCHANGED << inputs, max_size, offset, checksum, new_offset, new_checksum, retry,
                    waiting, sends, log, retries, idle, reported, verified, outcome, reply >>

\* target.execute() and the next iteration (protocol.rs:245-249)
ExecuteDataOn(x) ==
    /\ LET r == simple_request(OpObjectExecute, x[2])
       IN  /\ Returned(x)
           /\ IF r.st = "ok" THEN LoopHead(offset, max_size)
              ELSE Fail(r) /\ UNCHANGED chunk
    /\ UNCHANGED << inputs, max_size, offset, checksum, new_offset, new_checksum, sends,
                    log, retries, idle, reported, verified >>

ExecuteData ==
    /\ pc = "data_execute" /\ waiting
    /\ \E x \in Returns(HeaderReplies(OpObjectExecute)) : ExecuteDataOn(x)

\* a step of dfu_run against a device that answers anything
Quiet == UNCHANGED << unit, link >>

Next ==
    \/ Connect /\ Quiet
    \/ Subscribe /\ Quiet
    \/ RequestCtrlSend /\ Quiet
    \/ RequestCtrlRetry /\ Quiet
    \/ SetPrn /\ Quiet
    \/ CreateCommand /\ Quiet
    \/ WriteInit /\ Quiet
    \/ VerifyCommand /\ Quiet
    \/ ExecuteCommand /\ Quiet
    \/ SelectData /\ Quiet
    \/ CreateData /\ Quiet
    \/ WriteData /\ Quiet
    \/ VerifyData /\ Quiet
    \/ Backoff /\ Quiet
    \/ ExecuteData /\ Quiet

Spec == Init /\ [][Next]_vars

(***************************************************************************)
(* Properties.                                                             *)
(***************************************************************************)

\* C1: in the Data phase offset and checksum change only in the step in which
\* verify_crc(new_offset, new_checksum) returned success; in a step in which
\* verify_crc returned (CRC mismatch, offset mismatch, or an error of the
\* CrcGet request itself) without success, both keep their values.
C1_CommitOnlyWhenVerified ==
    [][ /\ (offset' # offset \/ checksum' # checksum) =>
              /\ pc = "data_verify" /\ waiting
              /\ verify_crc(new_offset, new_checksum, reply').st = "ok"
              /\ offset' = new_offset /\ checksum' = new_checksum
        /\ (pc = "data_verify" /\ pc' # pc
              /\ verify_crc(new_offset, new_checksum, reply').st # "ok") =>
              (offset' = offset /\ checksum' = checksum) ]_vars

\* C1 witness: a chunk after the first was written, its verify_crc failed, and
\* the offset is still the one the iteration started with.
C1_Witness ==
    /\ pc = "backoff"
    /\ offset > 0
    /\ new_offset > offset
    /\ verify_crc(new_offset, new_checksum, reply).st = "err"

\* C2: whenever dfu_run has returned success, offset is the length of the
\* firmware and the CRC the device reported last is the CRC-32 of the whole
\* firmware.
C2_SuccessMeansWholeImage ==
    pc = "done" =>
        /\ result = Ok
        /\ offset = Len(fw_pkt)
        /\ reported = crc32(fw_pkt, Zero32)

\* C2 witness: a successful run of a firmware of several chunks, one of them
\* retried.
C2_Witness ==
    /\ pc = "done"
    /\ Len(fw_pkt) >= 3
    /\ max_size = 2
    /\ retries >= 1

\* C3: a control request is written at most 3 times; an attempt whose window
\* elapses in silence is followed by the next attempt of the same request (no
\* other operation in between), and the third silent attempt resolves the
\* request with NoResponse.
C3_AtMostThreeAttempts ==
    /\ [](sends <= 3)
    /\ [][ /\ (waiting /\ ~waiting' /\ outcome' = "timeout") =>
                \/ /\ sends < 3
                   /\ pc' = pc /\ retry' = retry + 1 /\ sends' = sends /\ log' = log
                \/ /\ sends = 3
                   /\ reply' = Err("NoResponse", 0)
                   /\ pc' # pc
           /\ (pc \in CtrlPcs /\ retry > 0 /\ ~waiting) =>
                (waiting' /\ pc' = pc /\ sends' = sends + 1 /\ log' = log) ]_vars

\* C3 witness: ReceiptNotifSet was sent three times in silence and dfu_run
\* returned NoResponse.
C3_Witness ==
    /\ pc = "failed"
    /\ result = Err("NoResponse", 0)
    /\ sends = 3
    /\ log = << SubEntry, CtrlEntry(<< 2, 0, 0, 0, 0 >>) >>

\* the opcode of the control request dfu_run is at
ReqOpcode == Payload[1]

IsCreate(e) == e.k = "ctrl" /\ Len(e.bytes) = 6 /\ e.bytes[1] = 1
IsDataCreate(e) == IsCreate(e) /\ e.bytes[2] = 2
\* the length an ObjectCreate entry declares (its bytes 2..5, little-endian)
Declared(e) == e.bytes[3] + 256 * e.bytes[4] + 65536 * e.bytes[5]
CrcGetEntry == CtrlEntry(<< 3 >>)
ExecuteEntry == CtrlEntry(<< 4 >>)
SelectEntry == CtrlEntry(<< 6, 2 >>)

\* C5: when verify_crc returns an error for the chunk just written, the run
\* does not end: the engine goes to the 500 ms backoff and from there to
\* ObjectCreate(Data, n) and write_data of the same chunk (same offset, same
\* length, same bytes), however many times the chunk has failed before.
C5_FailedChunkIsRetried ==
    /\ [](\A i \in 1..Len(log) :
            (log[i] = CrcGetEntry /\ i < Len(log) /\ IsCreate(log[i + 1])) =>
                /\ i >= 3
                /\ log[i + 1] = log[i - 2]
                /\ IsDataCreate(log[i + 1])
                /\ (i + 2 <= Len(log)) => log[i + 2] = log[i - 1])
    /\ [][ /\ (pc = "data_verify" /\ pc' # pc
                /\ verify_crc(new_offset, new_checksum, reply').st = "err") =>
                 (pc' = "backoff" /\ result' = Running /\ chunk' = chunk /\ offset' = offset)
           /\ pc = "backoff" =>
                 (pc' = "data_create" /\ result' = Running /\ chunk' = chunk
                    /\ offset' = offset /\ retry' = 0 /\ ~waiting') ]_vars

\* C5 witness: the chunk at offset 2 has failed twice and has been created and
\* written a third time, with the same bytes at the same offset.
C5_Witness ==
    /\ pc = "data_verify" /\ waiting
    /\ retries = 2
    /\ offset = 2
    /\ Len(log) >= 13
    /\ log[Len(log) - 1] = DataEntry(<< 3, 4 >>, 2)
    /\ log[Len(log) - 4] = DataEntry(<< 3, 4 >>, 2)
    /\ log[Len(log) - 7] = DataEntry(<< 3, 4 >>, 2)

\* C6: every error other than a timed-out attempt and a failed verify_crc of
\* the Data phase ends the run: NoResponse, a framing error, a non-Success
\* result code, a failed write_data (issued once), a failed verify_crc of the
\* Command phase and ResumeUnsupported each make dfu_run return that error,
\* and nothing is issued after dfu_run has returned.
C6_ErrorsAreTerminal ==
    [][ /\ (pc \in CtrlPcs \ {"data_verify"} /\ waiting /\ pc' # pc) =>
              /\ reply'.st = "err" => (pc' = "failed" /\ result' = reply')
              /\ (reply'.st = "ok" /\ (Len(reply'.val) < 3 \/ reply'.val[1] # 96
                                          \/ reply'.val[2] # ReqOpcode)) =>
                    (pc' = "failed" /\ result'.kind = "Framing")
              /\ (reply'.st = "ok" /\ Len(reply'.val) >= 3 /\ reply'.val[1] = 96
                    /\ reply'.val[2] = ReqOpcode /\ reply'.val[3] # 1) =>
                    (pc' = "failed" /\ result'.st = "err")
        /\ (pc = "cmd_verify" /\ waiting /\ pc' # pc /\ get_crc(reply').st = "ok"
              /\ get_crc(reply').val # << Len(init_pkt), crc32(init_pkt, Zero32) >>) =>
                 (pc' = "failed" /\ result'.kind \in {"OffsetMismatch", "CrcMismatch"})
        /\ (pc = "select" /\ waiting /\ pc' # pc /\ select_object(reply').st = "ok"
              /\ Slice(select_object(reply').val, 1, 3) # << 0, Zero32 >>) =>
                 (pc' = "failed" /\ result' = Err("ResumeUnsupported", 0))
        /\ (pc \in {"cmd_write", "data_write"} /\ pc' \notin {"cmd_verify", "data_verify"}) =>
                 (pc' = "failed" /\ result'.kind \in {"WriteTimeout", "Wire"}
                    /\ log' = Append(log, log'[Len(log')]))
        /\ pc \notin {"failed", "done"} ]_vars

\* C7, as stated: when the reply to ObjectSelect(Data) reports an offset or a
\* CRC other than 0, dfu_run fails with ResumeUnsupported and the run has
\* written no data at all.
SelectReportedState ==
    /\ Len(log) > 0 /\ log[Len(log)] = SelectEntry
    /\ select_object(reply).st = "ok"
    /\ (select_object(reply).val[2] # 0 \/ select_object(reply).val[3] # Zero32)

C7_NoDataWriteAtAll ==
    /\ SelectReportedState => result = Err("ResumeUnsupported", 0)
    /\ result.kind = "ResumeUnsupported" =>
          /\ pc = "failed"
          /\ \A i \in 1..Len(log) : log[i].k = "data" => log[i].bytes = << >>

\* C7, amended: when the reply to ObjectSelect(Data) reports an offset or a
\* CRC other than 0, dfu_run fails with ResumeUnsupported and no Data object is
\* created or written: the only data write of the run is the write of the init
\* packet in the Command phase, before the ObjectSelect.
C7_NoDataObjectWritten ==
    /\ SelectReportedState => result = Err("ResumeUnsupported", 0)
    /\ result.kind = "ResumeUnsupported" =>
          /\ pc = "failed"
          /\ log[Len(log)] = SelectEntry
          /\ \A i \in 1..Len(log) :
                /\ log[i].k = "data" => (i = 4 /\ log[i] = DataEntry(init_pkt, 0))
                /\ ~IsDataCreate(log[i])

\* C7 witness: the device reported the CRC 0xDEADBEEF on ObjectSelect(Data)
\* after a two-byte init packet had been written.
C7_Witness ==
    /\ pc = "failed"
    /\ result = Err("ResumeUnsupported", 0)
    /\ reported = << 57005, 48879 >>
    /\ log[4] = DataEntry(<< 170, 187 >>, 0)

DataCreates == SelectSeq(log, IsDataCreate)
CeilDiv(a, b) == (a + b - 1) \div b

\* C8: when dfu_run has returned success, the ObjectCreate(Data) calls number
\* ceil(len(firmware) / max_size) plus the failed verify_crc iterations; with
\* none failed every chunk declares max_size bytes except the last, which
\* declares the rest; an empty firmware has no ObjectCreate(Data), after a
\* Command phase and an ObjectSelect(Data) that did run.
C8_DataCreateCount ==
    pc = "done" =>
        /\ Len(log) >= 7 /\ log[7] = SelectEntry /\ IsCreate(log[3])
        /\ IF Len(fw_pkt) = 0
           THEN Len(DataCreates) = 0
           ELSE /\ max_size > 0
                /\ Len(DataCreates) = CeilDiv(Len(fw_pkt), max_size) + retries
        /\ retries = 0 =>
              \A i \in 1..Len(DataCreates) :
                  Declared(DataCreates[i]) =
                      IF i < Len(DataCreates) THEN max_size
                      ELSE Len(fw_pkt) - (i - 1) * max_size

\* C8 witness: three bytes in objects of at most two, one iteration failed:
\* three ObjectCreate(Data), declaring 2, 2 and 1 bytes or 2, 1 and 1.
C8_Witness ==
    /\ pc = "done"
    /\ Len(fw_pkt) = 3 /\ max_size = 2 /\ retries = 1
    /\ Len(DataCreates) = 3
    /\ Declared(DataCreates[3]) = 1

\* C9: every ObjectCreate is followed by one data write of exactly the declared
\* length, then by CrcGet, then by ObjectExecute (or, when the verify_crc of a
\* Data object failed, by the ObjectCreate of the same object again); an
\* ObjectExecute follows create, write and CrcGet of its object and is issued
\* only once verify_crc has succeeded for it.
C9_ObjectSequence ==
    /\ \A i \in 1..Len(log) :
          /\ IsCreate(log[i]) =>
                /\ (i + 1 <= Len(log)) =>
                      (log[i + 1].k = "data" /\ Len(log[i + 1].bytes) = Declared(log[i]))
                /\ (i + 2 <= Len(log)) => log[i + 2] = CrcGetEntry
                /\ (i + 3 <= Len(log)) =>
                      \/ log[i + 3] = ExecuteEntry
                      \/ IsDataCreate(log[i]) /\ log[i + 3] = log[i]
          /\ log[i] = ExecuteEntry =>
                /\ i >= 4
                /\ IsCreate(log[i - 3]) /\ log[i - 2].k = "data" /\ log[i - 1] = CrcGetEntry
          /\ log[i] = CrcGetEntry => (i >= 3 /\ IsCreate(log[i - 2]))
    /\ (Len(log) > 0 /\ log[Len(log)] = ExecuteEntry /\ pc \in {"cmd_execute", "data_execute"})
          => verified
    /\ (pc = "done" /\ Len(log) > 7) => log[Len(log)] = ExecuteEntry

\* C9 witness: a successful run with a retried Data object.
C9_Witness ==
    /\ pc = "done"
    /\ retries >= 1
    /\ Len(fw_pkt) >= 2
    /\ Len(DataCreates) >= 3

\* the first seven operations of every run
CommandPhase ==
    << SubEntry,
       CtrlEntry(<< 2, 0, 0, 0, 0 >>),
       CtrlEntry(<< 1, 1, Len(init_pkt), 0, 0, 0 >>),
       DataEntry(init_pkt, 0),
       CrcGetEntry,
       ExecuteEntry,
       SelectEntry >>

\* C10: the operations of a run are, in this order, Subscribe,
\* ReceiptNotifSet(0), ObjectCreate(Command), the write of the init packet,
\* CrcGet, ObjectExecute, ObjectSelect(Data), and after these only operations
\* of Data objects; nothing is issued before the connection is made, the
\* ObjectSelect(Data) is issued once, and a run that succeeded has issued it.
C10_FixedOrder ==
    /\ \A i \in 1..Len(log) :
          IF i <= 7 THEN log[i] = CommandPhase[i]
          ELSE \/ IsDataCreate(log[i])
               \/ log[i].k = "data"
               \/ log[i] = CrcGetEntry
               \/ log[i] = ExecuteEntry
    /\ pc = "connect" => log = << >>
    /\ pc \in {"data_create", "data_write", "data_verify", "backoff", "data_execute", "done"}
          => Len(log) >= 7
    /\ (Len(log) >= 8) => IsDataCreate(log[8])

\* C10 witness: init packet AA BB, firmware 01 02 03 04, max_size 4096: the
\* control sequence 02 00 00 00 00, 01 01 02 00 00 00, 03, 04, 06 02,
\* 01 02 04 00 00 00, 03, 04 and the two data writes.
C10_Witness ==
    /\ pc = "done"
    /\ max_size = 4096
    /\ log = << SubEntry,
                CtrlEntry(<< 2, 0, 0, 0, 0 >>),
                CtrlEntry(<< 1, 1, 2, 0, 0, 0 >>),
                DataEntry(<< 170, 187 >>, 0),
                CtrlEntry(<< 3 >>),
                CtrlEntry(<< 4 >>),
                CtrlEntry(<< 6, 2 >>),
                CtrlEntry(<< 1, 2, 4, 0, 0, 0 >>),
                DataEntry(<< 1, 2, 3, 4 >>, 0),
                CtrlEntry(<< 3 >>),
                CtrlEntry(<< 4 >>) >>

(***************************************************************************)
(* Functions called on their own: DfuTarget::verify_response,              *)
(* DfuTransportBtleplug::write and dfu_trigger, each on arguments drawn    *)
(* from a bounded set.  The engine's variables stay at rest.               *)
(***************************************************************************)
\* the prefixes of length 0..n of a sequence
Prefixes(q, n) == { SubSeq(q, 1, k) : k \in 0..Min(n, Len(q)) }

\* replies to a request of opcode op: every header byte right or wrong, every
\* result code and one past the last, extended codes inside and outside the
\* enum, at every length up to MaxReplyLen
UnitReplies(op) ==
    UNION { Prefixes(<< b0, b1, b2, b3, 7 >>, MaxReplyLen) :
              b0 \in {OpResponse, 32}, b1 \in {op, OtherOp(op)},
              b2 \in 0..12, b3 \in {0, 13, 14} }

UnitOpcodes == {OpObjectCreate, OpReceiptNotifSet, OpCrcGet, OpObjectExecute, OpObjectSelect}

\* one more byte in a frame
MTUOneMore == 244 + 1

\* const MTU: usize = 244 (transport_btleplug.rs:129)
MTU == 244

\* the buffers handed to write: around every multiple of the MTU
WriteLens == { n \in 0..(MaxFrames * MTU + 1) :
                 \E k \in 0..MaxFrames : n \in {k * MTU - 1, k * MTU, k * MTU + 1} }
Buffer(n) == [i \in 1..n |-> i % 251]

\* replies to the buttonless request: every sequence of bytes of the expected
\* reply and of two others, up to MaxReplyLen
RECURSIVE SeqsOver(_, _)
SeqsOver(S, n) ==
    IF n = 0 THEN { << >> }
    ELSE LET shorter == SeqsOver(S, n - 1)
         IN  shorter \cup { Append(q, b) : q \in shorter, b \in S }

TriggerReplies == SeqsOver({32, 1, 96}, MaxReplyLen)

UnitCalls ==
    { [fn |-> "verify_response", op |-> op, bytes |-> b] :
        op \in UnitOpcodes, b \in UNION { UnitReplies(o) : o \in {OpCrcGet, OpObjectExecute} } }
    \cup { [fn |-> "write", op |-> 0, bytes |-> Buffer(n)] : n \in WriteLens }
    \cup { [fn |-> "dfu_trigger", op |-> 0, bytes |-> << >>] }

UnitInit ==
    /\ pc = "call"
    /\ call \in UnitCalls
    /\ frames = << >>
    /\ ret = Running
    /\ init_pkt = << >> /\ fw_pkt = << >>
    /\ max_size = 0 /\ offset = 0 /\ checksum = Zero32 /\ chunk = << >>
    /\ new_offset = 0 /\ new_checksum = Zero32
    /\ retry = 0 /\ waiting = FALSE /\ result = Running
    /\ sends = 0 /\ log = << >> /\ retries = 0 /\ idle = 0
    /\ reported = Zero32 /\ verified = FALSE /\ outcome = "none" /\ reply = Running
    /\ dev = NoDevice /\ air = << >> /\ got = "none"

\* everything but pc, log, reply and the state of the call
UnitRest == << inputs, locals, retry, waiting, result, sends, retries, idle, reported,
               verified, outcome, link >>

\* verify_response(call.op, call.bytes) (protocol.rs:113-129)
UnitVerifyResponse ==
    /\ pc = "call" /\ call.fn = "verify_response"
    /\ ret' = verify_response(call.op, call.bytes)
    /\ pc' = "returned"
    /\ UNCHANGED << call, frames, log, reply, UnitRest >>

\* self.characteristic(char)? (transport_btleplug.rs:126)
WriteStart ==
    /\ pc = "call" /\ call.fn = "write"
    /\ \E found \in BOOLEAN :
        IF found THEN pc' = "write_loop" /\ ret' = ret
        ELSE pc' = "returned" /\ ret' = Err("NoCharacteristic", 0)
    /\ UNCHANGED << call, frames, log, reply, UnitRest >>

\* the bytes the frames handed over so far carry
Written == Len(frames) * MTU

\* bytes.chunks(MTU): the next chunk is the MTU bytes after those the earlier
\* chunks took, or what is left of the buffer (transport_btleplug.rs:130)
NextChunk(bytes, done) == SubSeq(bytes, done + 1, Min(Len(bytes), done + MTU))

\* one iteration: peripheral.write(chunk, WithoutResponse).await?
\* (transport_btleplug.rs:130-132)
WriteFrame ==
    /\ pc = "write_loop"
    /\ Written < Len(call.bytes)
    /\ \E sent \in BOOLEAN :
        IF sent
        THEN /\ frames' = Append(frames, NextChunk(call.bytes, Written))
             /\ pc' = pc /\ ret' = ret
        ELSE /\ frames' = frames
             /\ pc' = "returned" /\ ret' = Err("Wire", 0)
    /\ UNCHANGED << call, log, reply, UnitRest >>

\* the chunks are exhausted: Ok(()) (transport_btleplug.rs:133)
WriteReturn ==
    /\ pc = "write_loop"
    /\ Written >= Len(call.bytes)
    /\ pc' = "returned" /\ ret' = Ok
    /\ UNCHANGED << call, frames, log, reply, UnitRest >>

\* entries of log for the buttonless characteristic
TriggerSubEntry == [k |-> "subscribe_bttnlss", bytes |-> << >>, at |-> 0]
TriggerReqEntry(bytes) == [k |-> "request_bttnlss", bytes |-> bytes, at |-> 0]

\* manager.connect(target).await? (protocol.rs:254)
TriggerConnect ==
    /\ pc = "call" /\ call.fn = "dfu_trigger"
    /\ \E ok \in BOOLEAN :
        IF ok THEN pc' = "trigger_subscribe" /\ ret' = ret
        ELSE pc' = "returned" /\ ret' = Err("Connect", 0)
    /\ UNCHANGED << call, frames, log, reply, UnitRest >>

\* transport.subscribe(BTTNLSS).await? (protocol.rs:255)
TriggerSubscribe ==
    /\ pc = "trigger_subscribe"
    /\ log' = Append(log, TriggerSubEntry)
    /\ \E ok \in BOOLEAN :
        IF ok THEN pc' = "trigger_request" /\ ret' = ret
        ELSE pc' = "returned" /\ ret' = Err("Subscribe", 0)
    /\ UNCHANGED << call, frames, reply, UnitRest >>

\* a comparison of the first three bytes only
TriggerAcceptsPrefix(res) == Len(res) >= 3 /\ SubSeq(res, 1, 3) = << 32, 1, 1 >>

\* res.eq(&[0x20, 0x01, 0x01]) (protocol.rs:257)
TriggerAccepts(res) == res = << 32, 1, 1 >>

\* transport.request(BTTNLSS, &[0x01]).await? and the ensure! (protocol.rs:256-258)
TriggerRequest ==
    /\ pc = "trigger_request"
    /\ log' = Append(log, TriggerReqEntry(<< 1 >>))
    /\ \E r \in { Err("Wire", 0) } \cup { OkVal(b) : b \in TriggerReplies } :
        /\ reply' = r
        /\ ret' = IF r.st # "ok" THEN r
                  ELSE IF TriggerAccepts(r.val) THEN Ok
                  ELSE Err("TriggerFailed", 0)
    /\ pc' = "returned"
    /\ UNCHANGED << call, frames, UnitRest >>

UnitNext ==
    \/ UnitVerifyResponse
    \/ WriteStart
    \/ WriteFrame
    \/ WriteReturn
    \/ TriggerConnect
    \/ TriggerSubscribe
    \/ TriggerRequest

UnitSpec == UnitInit /\ [][UnitNext]_vars

\* the header checks of a reply b to a request of opcode R
Framed(R, b) == Len(b) >= 3 /\ b[1] = 96 /\ b[2] = R

\* C12: verify_response(R, reply) accepts the reply if and only if it has at
\* least 3 bytes, reply[0] = 0x60, reply[1] = R and reply[2] = 0x01; a reply
\* that fails the length, header or opcode check is a framing error; a reply
\* whose result code is ExtError surfaces the extended code of reply[3], and a
\* reply with any other result code than Success surfaces that code.
C12_VerifyResponseContract ==
    (pc = "returned" /\ call.fn = "verify_response") =>
        LET b == call.bytes
            R == call.op
        IN  /\ (ret = Ok) <=> (Framed(R, b) /\ b[3] = 1)
            /\ ~Framed(R, b) => (ret.st = "err" /\ ret.kind = "Framing")
            /\ (Framed(R, b) /\ b[3] = 11) =>
                  /\ ret.st = "err"
                  /\ ret.kind \in {"ExtError", "UnknownExtError"}
                  /\ Len(b) >= 4
                  /\ ret.code = b[4]
            /\ (Framed(R, b) /\ b[3] \notin {1, 11}) =>
                  /\ ret.st = "err"
                  /\ ret.kind \in {"Device", "UnknownResponseCode"}
                  /\ ret.code = b[3]

RECURSIVE Flatten(_)
Flatten(fs) == IF fs = << >> THEN << >> ELSE Head(fs) \o Flatten(Tail(fs))

\* C13: write hands the peripheral frames of 1 to 244 bytes whose
\* concatenation is, in order, a prefix of bytes, and all of bytes once write
\* has returned Ok; an empty bytes gives no frame; once a frame has failed
\* write has returned that error, the frames handed over are short of the
\* whole buffer, and no further frame is handed over.
C13_WriteSegments ==
    /\ [](call.fn = "write" =>
            /\ \A i \in 1..Len(frames) : Len(frames[i]) \in 1..244
            /\ \A i \in 1..(Len(frames) - 1) : Len(frames[i]) = 244
            /\ Flatten(frames) = SubSeq(call.bytes, 1, Len(Flatten(frames)))
            /\ (pc = "returned" /\ ret = Ok) => Flatten(frames) = call.bytes
            /\ call.bytes = << >> => frames = << >>
            /\ ret.st = "err" => pc = "returned"
            /\ ret = Err("Wire", 0) => Len(Flatten(frames)) < Len(call.bytes))
    /\ [][(call.fn = "write" /\ ret.st = "err") => frames' = frames]_vars

\* C13 witness: 489 bytes were written as frames of 244, 244 and 1 bytes.
C13_Witness ==
    /\ call.fn = "write" /\ pc = "returned" /\ ret = Ok
    /\ Len(call.bytes) = 489
    /\ Len(frames) = 3
    /\ Len(frames[2]) = 244 /\ frames[3] = << call.bytes[489] >>

\* C14: dfu_trigger subscribes to BTTNLSS, then sends the one request [0x01]
\* on BTTNLSS, and returns Ok exactly when the reply is the three bytes
\* [0x20, 0x01, 0x01]; any other reply makes it fail with TriggerFailed.
C14_TriggerExactReply ==
    call.fn = "dfu_trigger" =>
        /\ log \in Prefixes(<< TriggerSubEntry, TriggerReqEntry(<< 1 >>) >>, 2)
        /\ (pc = "returned" /\ Len(log) = 2 /\ reply.st = "ok") =>
              IF reply.val = << 32, 1, 1 >> THEN ret = Ok
              ELSE ret = Err("TriggerFailed", 0)
        /\ ret = Ok =>
              (pc = "returned" /\ Len(log) = 2 /\ reply = OkVal(<< 32, 1, 1 >>))

\* C14 witness: the reply 20 01 01 01, one byte longer than the expected one,
\* was refused.
C14_Witness ==
    /\ call.fn = "dfu_trigger" /\ pc = "returned"
    /\ reply = OkVal(<< 32, 1, 1, 1 >>)
    /\ ret = Err("TriggerFailed", 0)

\* the states of the Data phase: from the loop head to the return
DataPhase == pc \in {"data_create", "data_write", "data_verify", "backoff",
                     "data_execute", "done"}

\* C15: in every state of the Data phase 0 <= offset <= len(fw_pkt), and so is
\* the offset the iteration is about to commit, whatever the length of the
\* firmware and whatever max_size the device reported (0 and 4096 included).
C15_OffsetInRange ==
    DataPhase =>
        /\ 0 <= offset /\ offset <= Len(fw_pkt)
        /\ pc \in {"data_verify", "data_execute"} =>
              (offset <= new_offset /\ new_offset <= Len(fw_pkt))

\* C15 witness: the device reported a max_size beyond the end of a firmware of
\* three bytes, and the one chunk was committed: offset is the length.
C15_Witness ==
    /\ pc = "data_execute"
    /\ max_size > Len(fw_pkt)
    /\ Len(fw_pkt) = 3
    /\ offset = 3

\* C16: in every state of the Data phase (the loop head included) checksum is
\* crc32(fw_pkt[0..offset], 0), and the checksum computed for the chunk just
\* written, crc32(chunk, checksum), is crc32(fw_pkt[0..new_offset], 0):
\* chaining over the chunks gives the CRC-32 of their concatenation, also
\* after failed and retried chunks.
C16_RollingCrc ==
    DataPhase =>
        /\ checksum = crc32(SubSeq(fw_pkt, 1, offset), Zero32)
        /\ pc = "data_verify" =>
              /\ new_checksum = crc32(chunk, checksum)
              /\ new_checksum = crc32(SubSeq(fw_pkt, 1, new_offset), Zero32)

\* C16 witness: 01 02 03 04 went in chunks of one byte, one of them retried;
\* the chained checksum is 0xB63CFBCD, the CRC-32 of the four bytes.
C16_Witness ==
    /\ pc = "done"
    /\ fw_pkt = << 1, 2, 3, 4 >>
    /\ max_size = 1
    /\ retries >= 1
    /\ checksum = << 46652, 64461 >>

\* the attempts of control requests written and not resolved
InFlight == IF waiting THEN 1 ELSE 0

\* C18: at most one attempt of a control request is in flight; while it is,
\* nothing is issued on the transport (no request, no further attempt, no data
\* write, no subscribe); it resolves by a reply, a failure or a timeout, and
\* only then is the next attempt or the next operation of the program issued,
\* a request being written once per attempt; a data write is issued only
\* between two requests.
C18_OneRequestInFlight ==
    /\ [](InFlight <= 1)
    /\ [](pc \in {"connect", "subscribe", "cmd_write", "data_write", "backoff"}
             => (InFlight = 0 /\ retry = 0))
    /\ [][ /\ (sends' # sends \/ log' # log) => InFlight = 0
           /\ (InFlight = 0 /\ InFlight' = 1) =>
                 /\ pc \in CtrlPcs /\ pc' = pc
                 /\ sends' = (IF retry = 0 THEN 1 ELSE sends + 1)
                 /\ log' = (IF retry = 0 THEN Append(log, CtrlEntry(Payload)) ELSE log)
           /\ (InFlight = 1 /\ InFlight' = 0) =>
                 /\ outcome' \in {"timeout", "wire", "reply"}
                 /\ pc' = pc => (outcome' = "timeout" /\ retry' = retry + 1)
           /\ (pc' # pc /\ pc \in CtrlPcs) => (InFlight = 1 /\ InFlight' = 0 /\ retry' = 0)
         ]_vars

\* C18 witness: the CrcGet of the Command object timed out once and its second
\* attempt is in flight, after the write of the init packet.
C18_Witness ==
    /\ pc = "cmd_verify" /\ waiting
    /\ retry = 1 /\ sends = 2
    /\ outcome = "timeout"
    /\ log[Len(log)] = CrcGetEntry
    /\ log[Len(log) - 1] = DataEntry(init_pkt, 0)

\* C19: whatever bytes the device sends as the reply to a control request, the
\* engine accepts them or returns an error: it never aborts on an index or a
\* slice out of range.
C19_NeverAborts ==
    /\ pc # "panicked"
    /\ result.st # "panic"

(***************************************************************************)
(* dfu_run against a device that answers truthfully, over a link that      *)
(* delays.  The device handles a request when it is written and sends the  *)
(* reply as a notification of the control point; notifications arrive in   *)
(* the order sent, after any delay.  transport.request opens a fresh       *)
(* notification stream per call (transport_btleplug.rs:137) and returns    *)
(* the first notification of the characteristic that arrives on it         *)
(* (transport_btleplug.rs:140-143); when request_ctrl's timeout drops the  *)
(* call (protocol.rs:139) the stream goes with it, and a notification that *)
(* arrives while no call is open reaches no stream.  Data is written       *)
(* without response: the device may receive it intact, corrupted, or not   *)
(* at all.                                                                 *)
(***************************************************************************)
\* the device before anything is sent to it; m is the max_size it reports
DevFresh(m) == [obj |-> 0, offset |-> 0, crc |-> Zero32, base |-> << 0, Zero32 >>, max |-> m]

\* the device after the request req: ObjectCreate starts the object over from
\* what is committed, ObjectExecute commits, ObjectSelect selects the type
DevHandle(d, req) ==
    CASE req[1] = OpObjectCreate /\ req[2] = ObjCommand ->
            [d EXCEPT !.obj = ObjCommand, !.offset = 0, !.crc = Zero32, !.base = << 0, Zero32 >>]
      [] req[1] = OpObjectCreate /\ req[2] # ObjCommand ->
            [d EXCEPT !.obj = req[2], !.offset = d.base[1], !.crc = d.base[2]]
      [] req[1] = OpObjectExecute ->
            [d EXCEPT !.base = << d.offset, d.crc >>]
      [] req[1] = OpObjectSelect ->
            [d EXCEPT !.obj = req[2], !.offset = 0, !.crc = Zero32, !.base = << 0, Zero32 >>]
      [] OTHER -> d

\* the reply of the device in state d to the request req
DevReply(d, req) ==
    CASE req[1] = OpCrcGet ->
            << OpResponse, OpCrcGet, RcSuccess >> \o to_le_bytes(as_u32(d.offset)) \o to_le_bytes(d.crc)
      [] req[1] = OpObjectSelect ->
            << OpResponse, OpObjectSelect, RcSuccess >> \o to_le_bytes(as_u32(d.max))
                \o to_le_bytes(as_u32(d.offset)) \o to_le_bytes(d.crc)
      [] OTHER -> << OpResponse, req[1], RcSuccess >>

\* what can become of a data write on its way to the device
DataFates == {"intact", "lost", "corrupt"}

Corrupt(bytes) == IF bytes = << >> THEN bytes ELSE [bytes EXCEPT ![1] = (@ + 1) % 256]

\* the device after a data write of bytes
DevData(d, bytes, fate) ==
    CASE fate = "lost" -> d
      [] fate = "intact" ->
            [d EXCEPT !.offset = d.offset + Len(bytes), !.crc = crc32(bytes, d.crc)]
      [] fate = "corrupt" ->
            [d EXCEPT !.offset = d.offset + Len(bytes), !.crc = crc32(Corrupt(bytes), d.crc)]

LateInit ==
    /\ pc = "connect"
    /\ init_pkt = InitPacket(1)
    /\ fw_pkt \in {Firmware(n) : n \in 0..LateFwLen}
    /\ max_size = 0 /\ offset = 0 /\ checksum = Zero32 /\ chunk = << >>
    /\ new_offset = 0 /\ new_checksum = Zero32
    /\ retry = 0 /\ waiting = FALSE /\ result = Running
    /\ sends = 0 /\ log = << >> /\ retries = 0 /\ idle = 0
    /\ reported = Zero32 /\ verified = FALSE /\ outcome = "none" /\ reply = Running
    /\ call = NoCall /\ frames = << >> /\ ret = Running
    /\ dev \in {DevFresh(m) : m \in 1..LateFwLen}
    /\ air = << >>
    /\ got = "none"

\* the notifications on their way answer attempts that are over
Stale(q) == [i \in 1..Len(q) |-> [q[i] EXCEPT !.late = TRUE]]

\* transport.request writes the request (transport_btleplug.rs:139): the
\* device handles it and sends its reply; at most MaxAir notifications are
\* delayed at a time
LateSend ==
    /\ RequestCtrlSend
    /\ Len(air) < MaxAir
    /\ dev' = DevHandle(dev, Payload)
    /\ air' = Append(Stale(air),
                     [late |-> FALSE, bytes |-> DevReply(DevHandle(dev, Payload), Payload)])
    /\ UNCHANGED << got, unit >>

\* what request_ctrl can return: the notification that arrives next on the
\* stream of the open call, a failure of the call, or NoResponse
Arrivals == Returns(IF air # << >> THEN { Head(air).bytes } ELSE { })

\* the notification returned has left the link
LinkAfter(x) ==
    /\ IF x[1] = "reply"
       THEN air' = Tail(air) /\ got' = (IF Head(air).late THEN "late" ELSE "own")
       ELSE UNCHANGED << air, got >>
    /\ UNCHANGED << dev, unit >>

\* a notification arrives while no call of transport.request is open
LateDrop ==
    /\ ~waiting
    /\ air # << >>
    /\ air' = Tail(air)
    /\ UNCHANGED << pc, inputs, locals, retry, waiting, result, sends, log, retries, idle,
                    reported, verified, outcome, reply, dev, got, unit >>

LateSetPrn ==
    /\ pc = "set_prn" /\ waiting
    /\ \E x \in Arrivals : SetPrnOn(x) /\ LinkAfter(x)

LateCreateCommand ==
    /\ pc = "cmd_create" /\ waiting
    /\ \E x \in Arrivals : CreateCommandOn(x) /\ LinkAfter(x)

\* write_data(init_pkt) and what reaches the device
LateWriteInit ==
    /\ WriteInit
    /\ \E fate \in DataFates : dev' = DevData(dev, init_pkt, fate)
    /\ UNCHANGED << air, got, unit >>

LateVerifyCommand ==
    /\ pc = "cmd_verify" /\ waiting
    /\ \E x \in Arrivals : VerifyCommandOn(x) /\ LinkAfter(x)

LateExecuteCommand ==
    /\ pc = "cmd_execute" /\ waiting
    /\ \E x \in Arrivals : ExecuteCommandOn(x) /\ LinkAfter(x)

LateSelectData ==
    /\ pc = "select" /\ waiting
    /\ \E x \in Arrivals : SelectDataOn(x) /\ LinkAfter(x)

LateCreateData ==
    /\ pc = "data_create" /\ waiting
    /\ \E x \in Arrivals : CreateDataOn(x) /\ LinkAfter(x)

\* write_data(chunk) and what reaches the device
LateWriteData ==
    /\ WriteData
    /\ \E fate \in DataFates : dev' = DevData(dev, chunk, fate)
    /\ UNCHANGED << air, got, unit >>

LateVerifyData ==
    /\ pc = "data_verify" /\ waiting
    /\ \E x \in Arrivals : VerifyDataOn(x) /\ LinkAfter(x)

LateExecuteData ==
    /\ pc = "data_execute" /\ waiting
    /\ \E x \in Arrivals : ExecuteDataOn(x) /\ LinkAfter(x)

LateNext ==
    \/ Connect /\ Quiet
    \/ Subscribe /\ Quiet
    \/ LateSend
    \/ RequestCtrlRetry /\ Quiet
    \/ LateDrop
    \/ LateSetPrn
    \/ LateCreateCommand
    \/ LateWriteInit
    \/ LateVerifyCommand
    \/ LateExecuteCommand
    \/ LateSelectData
    \/ LateCreateData
    \/ LateWriteData
    \/ LateVerifyData
    \/ Backoff /\ Quiet
    \/ LateExecuteData

LateSpec == LateInit /\ [][LateNext]_vars

\* C11: a notification that answers an attempt of a control request which has
\* already timed out is discarded: transport.request never returns it as the
\* reply of a later call, however its arrival interleaves with the write of
\* the next attempt.
C11_LateReplyDiscarded == got # "late"

\* C17: whenever verify_crc(o, c) has returned success the device's offset is
\* o and its CRC is c: for the Command object o is the length of the init
\* packet and c its CRC-32, for a Data object they are new_offset and
\* new_checksum, which are committed to offset and checksum; also when the
\* reply verify_crc went by was a late one of an attempt that had timed out.
C17_VerifiedMeansDeviceState ==
    /\ pc = "cmd_execute" =>
          /\ verified
          /\ dev.offset = Len(init_pkt)
          /\ dev.crc = crc32(init_pkt, Zero32)
    /\ pc = "data_execute" =>
          /\ verified
          /\ dev.offset = new_offset /\ dev.crc = new_checksum
          /\ dev.offset = offset /\ dev.crc = checksum
          /\ dev.crc = crc32(SubSeq(fw_pkt, 1, offset), Zero32)

(***************************************************************************)
(* Termination.  dfu_run is one task on a runtime that runs it whenever it *)
(* can go on, and every await of it ends: a control request by its reply   *)
(* or, at the latest, by the 500 ms timeout, write_data likewise, the      *)
(* backoff by its timer.  So a step that is possible is eventually taken.  *)
(***************************************************************************)
FairSpec == Init /\ [][Next]_vars /\ WF_vars(Next)

\* the payload the reply to a request of opcode op carries
PayloadLen(op) == IF op = OpCrcGet THEN 8 ELSE IF op = OpObjectSelect THEN 12 ELSE 0

\* a reply the protocol allows as the answer to a request of opcode op
ValidReply(op, b) ==
    /\ Len(b) >= 3 + PayloadLen(op)
    /\ b[1] = OpResponse /\ b[2] = op /\ b[3] = RcSuccess

\* the control request written last
LastRequest == LET ctrl == SelectSeq(log, LAMBDA e : e.k = "ctrl") IN ctrl[Len(ctrl)]

\* what the device and the link did, as the state shows it right after:
\* an attempt ended in silence or in a failure of the link
Unanswered == outcome \in {"timeout", "wire"}
\* connect, subscribe or write_data failed
LinkFailed == result.kind \in {"Connect", "Subscribe", "WriteTimeout", "Wire"}
\* the request written last was answered with something else than a valid reply
InvalidReply ==
    /\ ~waiting /\ retry = 0
    /\ outcome = "reply" /\ reply.st = "ok"
    /\ ~ValidReply(LastRequest.bytes[1], reply.val)
\* the device reported max_size 0 for a firmware that is not empty
MaxSizeZero == DataPhase /\ max_size = 0 /\ Len(fw_pkt) > 0
\* the CrcGet of the Command object was answered with another offset or CRC
\* than those of the init packet
CommandMismatch ==
    /\ Len(log) = 5 /\ ~waiting /\ retry = 0
    /\ outcome = "reply"
    /\ get_crc(reply).st = "ok"
    /\ get_crc(reply).val # << Len(init_pkt), crc32(init_pkt, Zero32) >>

\* C20, as stated: if the device reports max_size >= 1, answers every control
\* request with a valid reply within the timeout (the link not failing), and
\* reports a mismatching offset or CRC only finitely many times, dfu_run
\* eventually returns success, whatever the length of the firmware.
C20_EventuallyDone ==
    <>(pc = "done" \/ Unanswered \/ LinkFailed \/ InvalidReply \/ MaxSizeZero)

\* C20, amended: the same, provided also that the device reports offset 0 and
\* CRC 0 in its ObjectSelect(Data) reply and the offset and CRC of the init
\* packet in the CrcGet of the Command object; mismatches are recovered, and
\* may come finitely often, only for Data objects.
C20_EventuallyDoneFresh ==
    <>(pc = "done" \/ Unanswered \/ LinkFailed \/ InvalidReply \/ MaxSizeZero
         \/ SelectReportedState \/ CommandMismatch)

\* C20 witness: a firmware of four bytes went through in objects of one byte,
\* every request answered at the first attempt, two mismatches on the way.
C20_Witness ==
    /\ pc = "done"
    /\ Len(fw_pkt) = 4 /\ max_size = 1
    /\ retries = 2
    /\ Len(log) = 7 + 4 * 4 + 2 * 3

\* C21: whatever max_size the device reported in its ObjectSelect(Data) reply,
\* 0 included, an iteration of the Data loop whose verify_crc succeeds leaves
\* offset strictly greater than it found it, so that a device whose CRC always
\* matches cannot keep the loop running on a firmware that is not empty.
C21_VerifiedIterationAdvances ==
    [][(pc = "data_verify" /\ pc' = "data_execute") => offset' > offset]_vars

====
